---------------------------- MODULE Spec2Model ----------------------------
(***************************************************************************)
(* Model of uwv_kalman_filters::PoseUKF (PoseUKF.hpp / PoseUKF.cpp).       *)
(*                                                                         *)
(* Reduction used throughout.  The vehicle is cut down to one horizontal   *)
(* axis (surge, index 1 of a vector) and the vertical axis (heave, index 2 *)
(* of a vector); every rotation is a yaw rotation by a whole number of     *)
(* half turns, kept as that (unwrapped) number.  All quantities are        *)
(* integers.  A 6-vector of efforts is cut down to <<surge, heave, yaw>>:  *)
(* surge and yaw are among the rows/columns {0,1,5} of the code, heave     *)
(* among the rows/columns {2,3,4}.  A covariance is kept by its diagonal:  *)
(* one variance per degree of freedom.                                     *)
(***************************************************************************)
EXTENDS Integers, Sequences, FiniteSets, TLC

\* ------------------------------------------------------------------------
\* Bounds of the model
\* ------------------------------------------------------------------------
MaxCalls == 2           \* public calls made on one filter
MaxFeatures == 2        \* longest list handed to the visual-marker update

\* ------------------------------------------------------------------------
\* Scalars, vectors, rotations
\* ------------------------------------------------------------------------
\* a non-finite value (NaN, Inf): a number no finite quantity of the model takes
NaN == 0 - 1000000

Abs(x) == IF x < 0 THEN -x ELSE x

RECURSIVE IsqrtFrom(_, _)
IsqrtFrom(x, r) == IF (r + 1) * (r + 1) > x THEN r ELSE IsqrtFrom(x, r + 1)

\* matrix square root of a diagonal covariance entry (0 for a non-positive one)
Isqrt(x) == IF x <= 0 THEN 0 ELSE IsqrtFrom(x, 0)

Zero2 == <<0, 0>>
VAdd(a, b) == <<a[1] + b[1], a[2] + b[2]>>
VSub(a, b) == <<a[1] - b[1], a[2] - b[2]>>
VScale(k, a) == <<k * a[1], k * a[2]>>

\* q * v: a yaw rotation by q half turns turns the horizontal axis around
\* and leaves the vertical axis alone
Rotate(q, v) == <<IF q % 2 = 0 THEN v[1] ELSE -v[1], v[2]>>
\* q.inverse()
Inverse(q) == -q

\* a function, every entry worked out once
Table(f) == f @@ <<>>

\* f[lo] + ... + f[hi]
RECURSIVE SumOver(_, _, _)
SumOver(f, lo, hi) ==
    IF lo > hi THEN 0
    ELSE IF lo = hi THEN f[lo]
    ELSE LET mid == (lo + hi) \div 2
         IN  SumOver(f, lo, mid) + SumOver(f, mid + 1, hi)

\* exact fractions <<numerator, denominator>>, denominator > 0
RatAdd(a, b) == <<a[1] * b[2] + b[1] * a[2], a[2] * b[2]>>
RatGreater(a, milli) == a[1] * 1000 > milli * a[2]

\* ------------------------------------------------------------------------
\* PoseState: the product manifold and its degrees of freedom
\* ------------------------------------------------------------------------
\* <<field, component>>, component 0 for a scalar field, in the order of the
\* state's fields
Dofs ==
    << <<"position", 1>>, <<"position", 2>>, <<"orientation", 0>>,
       <<"velocity", 1>>, <<"velocity", 2>>,
       <<"acceleration", 1>>, <<"acceleration", 2>>,
       <<"bias_gyro", 0>>, <<"bias_acc", 0>>, <<"gravity", 0>>,
       <<"inertia", 0>>, <<"lin_damping", 0>>, <<"quad_damping", 0>>,
       <<"water_velocity", 0>>, <<"water_velocity_below", 0>>,
       <<"bias_adcp", 0>>, <<"water_density", 0>> >>

DOF == Len(Dofs)

\* the coordinate of a state along one degree of freedom
Coord(state, d) == IF d[2] = 0 THEN state[d[1]] ELSE state[d[1]][d[2]]

\* state boxplus vec, vec one increment per degree of freedom; every field of
\* the reduced manifold adds its tangent increment
BoxPlus(state, vec) ==
    [position |-> <<state.position[1] + vec[1], state.position[2] + vec[2]>>,
     orientation |-> state.orientation + vec[3],
     velocity |-> <<state.velocity[1] + vec[4], state.velocity[2] + vec[5]>>,
     acceleration |-> <<state.acceleration[1] + vec[6],
                        state.acceleration[2] + vec[7]>>,
     bias_gyro |-> state.bias_gyro + vec[8],
     bias_acc |-> state.bias_acc + vec[9],
     gravity |-> state.gravity + vec[10],
     inertia |-> state.inertia + vec[11],
     lin_damping |-> state.lin_damping + vec[12],
     quad_damping |-> state.quad_damping + vec[13],
     water_velocity |-> state.water_velocity + vec[14],
     water_velocity_below |-> state.water_velocity_below + vec[15],
     bias_adcp |-> state.bias_adcp + vec[16],
     water_density |-> state.water_density + vec[17]]

\* field.boxplus(vec, scale) for a vector field and for a scalar field
BoxPlusV(v, vec, scale) == VAdd(v, VScale(scale, vec))
BoxPlusS(x, d, scale) == x + d * scale

\* ------------------------------------------------------------------------
\* External collaborators, by their interface
\* ------------------------------------------------------------------------
\* pose_estimation::GeographicProjection of the local tangent plane at
\* location.latitude: nav <-> world along the horizontal axis
LocationLatitude == 1
navToWorld(x) == x + LocationLatitude
worldToNav(lat) == lat - LocationLatitude

\* pose_estimation::EARTHW, 7.29e-5 rad/s, in half turns per second
EARTHW == 0
\* yaw component of EARTHW * (cos(latitude), 0, sin(latitude))
EarthRotation(latitude) == EARTHW * latitude

\* w.cross(v) of a yaw rate w and a vector v of the kept axes points along the
\* dropped sway axis
Cross(w, v) == Zero2

\* uwv_dynamic_model::DynamicModel::calcEfforts: inertia * acceleration plus
\* linear and quadratic damping of the velocity, per axis
calcEfforts(params, acceleration_6d, velocity_6d, orientation) ==
    [c \in 1..3 |->
        params.inertia_matrix[c] * acceleration_6d[c]
        + params.damping_lin[c] * velocity_6d[c]
        + params.damping_quad[c] * Abs(velocity_6d[c]) * velocity_6d[c]]

\* ------------------------------------------------------------------------
\* Construction inputs that are the same in every run
\* ------------------------------------------------------------------------
filter_parameter ==
    [imu_in_body |-> Zero2,
     gyro_bias_offset |-> 1, gyro_bias_tau |-> 1,
     acc_bias_offset |-> 1, acc_bias_tau |-> 1,
     inertia_tau |-> 1, lin_damping_tau |-> 1, quad_damping_tau |-> 1,
     water_velocity_tau |-> 1, water_velocity_scale |-> 1,
     adcp_bias_tau |-> 1, atmospheric_pressure |-> 10,
     water_density_tau |-> 1]

\* ------------------------------------------------------------------------
\* Process model
\* ------------------------------------------------------------------------
\* (-1.0/tau) * (x - offset)
Relax(x, offset, tau) == (-(x - offset)) \div tau

\* processModel moving the position by the velocity it has just advanced
processModel_sequential(state, rotation_rate_in, inertia_off, lin_damping_off, quad_damping_off, water_density_off, delta_time) ==
    LET latitude == navToWorld(state.position[1])
        earth_rotation == EarthRotation(latitude)
        \* a yaw rate is the same in the IMU and in the navigation frame
        angular_velocity ==
            (rotation_rate_in - state.bias_gyro) - earth_rotation
    IN  [state EXCEPT
            !.position =
                BoxPlusV(state.position,
                         BoxPlusV(state.velocity, state.acceleration,
                                  delta_time),
                         delta_time),
            !.orientation =
                BoxPlusS(state.orientation, angular_velocity, delta_time),
            !.velocity =
                BoxPlusV(state.velocity, state.acceleration, delta_time),
            !.bias_gyro =
                BoxPlusS(state.bias_gyro,
                         Relax(state.bias_gyro,
                               filter_parameter.gyro_bias_offset,
                               filter_parameter.gyro_bias_tau), delta_time),
            !.bias_acc =
                BoxPlusS(state.bias_acc,
                         Relax(state.bias_acc,
                               filter_parameter.acc_bias_offset,
                               filter_parameter.acc_bias_tau), delta_time),
            !.inertia =
                BoxPlusS(state.inertia,
                         Relax(state.inertia, inertia_off,
                               filter_parameter.inertia_tau), delta_time),
            !.lin_damping =
                BoxPlusS(state.lin_damping,
                         Relax(state.lin_damping, lin_damping_off,
                               filter_parameter.lin_damping_tau), delta_time),
            !.quad_damping =
                BoxPlusS(state.quad_damping,
                         Relax(state.quad_damping, quad_damping_off,
                               filter_parameter.quad_damping_tau), delta_time),
            !.water_velocity =
                BoxPlusS(state.water_velocity,
                         Relax(state.water_velocity, 0,
                               filter_parameter.water_velocity_tau),
                         delta_time),
            !.water_velocity_below =
                BoxPlusS(state.water_velocity_below,
                         Relax(state.water_velocity_below, 0,
                               filter_parameter.water_velocity_tau),
                         delta_time),
            !.bias_adcp =
                BoxPlusS(state.bias_adcp,
                         Relax(state.bias_adcp, 0,
                               filter_parameter.adcp_bias_tau), delta_time),
            !.water_density =
                BoxPlusS(state.water_density,
                         Relax(state.water_density, water_density_off,
                               filter_parameter.water_density_tau),
                         delta_time)]

processModel(state, rotation_rate_in, inertia_off, lin_damping_off, quad_damping_off, water_density_off, delta_time) ==
    LET latitude == navToWorld(state.position[1])
        earth_rotation == EarthRotation(latitude)
        \* a yaw rate is the same in the IMU and in the navigation frame
        angular_velocity ==
            (rotation_rate_in - state.bias_gyro) - earth_rotation
    IN  [state EXCEPT
            !.position = BoxPlusV(state.position, state.velocity, delta_time),
            !.orientation =
                BoxPlusS(state.orientation, angular_velocity, delta_time),
            !.velocity =
                BoxPlusV(state.velocity, state.acceleration, delta_time),
            !.bias_gyro =
                BoxPlusS(state.bias_gyro,
                         Relax(state.bias_gyro,
                               filter_parameter.gyro_bias_offset,
                               filter_parameter.gyro_bias_tau), delta_time),
            !.bias_acc =
                BoxPlusS(state.bias_acc,
                         Relax(state.bias_acc,
                               filter_parameter.acc_bias_offset,
                               filter_parameter.acc_bias_tau), delta_time),
            !.inertia =
                BoxPlusS(state.inertia,
                         Relax(state.inertia, inertia_off,
                               filter_parameter.inertia_tau), delta_time),
            !.lin_damping =
                BoxPlusS(state.lin_damping,
                         Relax(state.lin_damping, lin_damping_off,
                               filter_parameter.lin_damping_tau), delta_time),
            !.quad_damping =
                BoxPlusS(state.quad_damping,
                         Relax(state.quad_damping, quad_damping_off,
                               filter_parameter.quad_damping_tau), delta_time),
            !.water_velocity =
                BoxPlusS(state.water_velocity,
                         Relax(state.water_velocity, 0,
                               filter_parameter.water_velocity_tau),
                         delta_time),
            !.water_velocity_below =
                BoxPlusS(state.water_velocity_below,
                         Relax(state.water_velocity_below, 0,
                               filter_parameter.water_velocity_tau),
                         delta_time),
            !.bias_adcp =
                BoxPlusS(state.bias_adcp,
                         Relax(state.bias_adcp, 0,
                               filter_parameter.adcp_bias_tau), delta_time),
            !.water_density =
                BoxPlusS(state.water_density,
                         Relax(state.water_density, water_density_off,
                               filter_parameter.water_density_tau),
                         delta_time)]

\* ------------------------------------------------------------------------
\* Measurement models
\* ------------------------------------------------------------------------
measurementXYPosition(state) == <<state.position[1]>>

measurementZPosition(state) == <<state.position[2]>>

measurementPressureSensor(state, pressure_sensor_in_imu, atmospheric_pressure) ==
    LET pressure_sensor_in_nav ==
            VAdd(state.position,
                 Rotate(state.orientation, pressure_sensor_in_imu))
    IN  <<atmospheric_pressure
          - pressure_sensor_in_nav[2] * state.gravity * state.water_density>>

measurementVelocity(state) ==
    Rotate(Inverse(state.orientation), state.velocity)

\* bias_acc is kept for the surge axis
measurementAcceleration(state) ==
    VAdd(Rotate(Inverse(state.orientation),
                VAdd(state.acceleration, <<0, state.gravity>>)),
         <<state.bias_acc, 0>>)

measurementWaterCurrents(state, cell_weighting) ==
    LET water_velocity_below ==
            Rotate(Inverse(state.orientation),
                   VSub(state.velocity, <<state.water_velocity_below, 0>>))
        water_velocity ==
            Rotate(Inverse(state.orientation),
                   VSub(state.velocity, <<state.water_velocity, 0>>))
    IN  <<cell_weighting * water_velocity_below[1]
          + (1 - cell_weighting) * water_velocity[1] + state.bias_adcp>>

\* Efforts are <<surge, heave, yaw>>; the hydrodynamic parameters are the
\* diagonals of the inertia and of the two damping matrices over the same
\* three axes.  Rows/columns {0,1,5} of the code are the axes 1 and 3.
InjectParameters(params, state) ==
    [inertia_matrix |->
        [params.inertia_matrix EXCEPT ![1] = state.inertia,
                                      ![3] = state.inertia],
     damping_lin |->
        [params.damping_lin EXCEPT ![1] = state.lin_damping,
                                   ![3] = state.lin_damping],
     damping_quad |->
        [params.damping_quad EXCEPT ![1] = state.quad_damping,
                                    ![3] = state.quad_damping]]

\* The value is [z, dm, seen]: the expected efforts, the parameters the
\* dynamic model holds after the evaluation, and the parameters it held when
\* calcEfforts ran.  efforts_sklearn is what predict_efforts returned.
measurementEfforts(state, params_in, imu_in_body, rotation_rate_body, efforts_sklearn) ==
    LET params == InjectParameters(params_in, state)
        water_velocity == <<state.water_velocity, 0>>
        velocity_body ==
            VSub(VSub(Rotate(Inverse(state.orientation), state.velocity),
                      Cross(rotation_rate_body, imu_in_body)),
                 Rotate(Inverse(state.orientation), water_velocity))
        velocity_6d == <<velocity_body[1], velocity_body[2], rotation_rate_body>>
        acceleration_body ==
            VSub(Rotate(Inverse(state.orientation), state.acceleration),
                 Cross(rotation_rate_body,
                       Cross(rotation_rate_body, imu_in_body)))
        acceleration_6d == <<acceleration_body[1], acceleration_body[2], 0>>
        efforts ==
            calcEfforts(params, acceleration_6d, velocity_6d, state.orientation)
    IN  [z |-> <<efforts_sklearn[1], efforts[2], efforts_sklearn[2]>>,
         dm |-> params,
         seen |-> params]

\* constrainVelocity writing the state's parameters into the model first
constrainVelocity_injecting(state, params_in, imu_in_body, rotation_rate_body, water_velocity, orientation, acceleration_body) ==
    LET params == InjectParameters(params_in, state)
        velocity_body ==
            VSub(VSub(Rotate(Inverse(orientation), state.velocity),
                      Cross(rotation_rate_body, imu_in_body)),
                 Rotate(Inverse(orientation), water_velocity))
        velocity_6d == <<velocity_body[1], velocity_body[2], rotation_rate_body>>
        acceleration_6d == <<acceleration_body[1], acceleration_body[2], 0>>
        efforts ==
            calcEfforts(params, acceleration_6d, velocity_6d, orientation)
    IN  [z |-> <<efforts[1], efforts[2], efforts[3]>>,
         dm |-> params,
         seen |-> params]

\* constrainVelocity taking the water velocity of the state it evaluates
constrainVelocity_own_water_velocity(state, params_in, imu_in_body, rotation_rate_body, water_velocity, orientation, acceleration_body) ==
    LET velocity_body ==
            VSub(VSub(Rotate(Inverse(orientation), state.velocity),
                      Cross(rotation_rate_body, imu_in_body)),
                 Rotate(Inverse(orientation), <<state.water_velocity, 0>>))
        velocity_6d == <<velocity_body[1], velocity_body[2], rotation_rate_body>>
        acceleration_6d == <<acceleration_body[1], acceleration_body[2], 0>>
        efforts ==
            calcEfforts(params_in, acceleration_6d, velocity_6d, orientation)
    IN  [z |-> <<efforts[1], efforts[2], efforts[3]>>,
         dm |-> params_in,
         seen |-> params_in]

constrainVelocity(state, params_in, imu_in_body, rotation_rate_body, water_velocity, orientation, acceleration_body) ==
    LET velocity_body ==
            VSub(VSub(Rotate(Inverse(orientation), state.velocity),
                      Cross(rotation_rate_body, imu_in_body)),
                 Rotate(Inverse(orientation), water_velocity))
        velocity_6d == <<velocity_body[1], velocity_body[2], rotation_rate_body>>
        acceleration_6d == <<acceleration_body[1], acceleration_body[2], 0>>
        efforts ==
            calcEfforts(params_in, acceleration_6d, velocity_6d, orientation)
    IN  [z |-> <<efforts[1], efforts[2], efforts[3]>>,
         dm |-> params_in,
         seen |-> params_in]

\* ------------------------------------------------------------------------
\* PoseStateWithMarker and the visual landmark measurement
\* ------------------------------------------------------------------------
\* the degrees of freedom of the filter state, then those of the marker pose
AugBoxPlus(state, vec) ==
    [filter_state |-> BoxPlus(state.filter_state, vec),
     marker_position |-> <<state.marker_position[1] + vec[DOF + 1],
                           state.marker_position[2] + vec[DOF + 2]>>,
     marker_orientation |-> state.marker_orientation + vec[DOF + 3]]

\* A point of S2 is kept by its chart value: the horizontal coordinate of the
\* ray where it crosses the plane at unit distance along the optical
\* (vertical) axis, in whole units
S2(ray) == IF ray[2] = 0 THEN 0 ELSE ray[1] \div ray[2]

\* cam_in_imu is a pose [rotation, translation]
measurementVisualLandmark(state, feature_pos, cam_in_imu) ==
    LET imu_rot == state.filter_state.orientation
        imu_trans == state.filter_state.position
        \* imu_in_nav * cam_in_imu
        cam_rot == imu_rot + cam_in_imu.rotation
        cam_trans == VAdd(Rotate(imu_rot, cam_in_imu.translation), imu_trans)
        feature_in_nav ==
            VAdd(Rotate(state.marker_orientation, feature_pos),
                 state.marker_position)
        \* (imu_in_nav * cam_in_imu).inverse() * feature_in_nav
        feature_in_cam ==
            Rotate(Inverse(cam_rot), VSub(feature_in_nav, cam_trans))
    IN  <<S2(feature_in_cam)>>

\* ------------------------------------------------------------------------
\* Innovation gates
\* ------------------------------------------------------------------------
\* mahalanobis2 is an exact fraction; the thresholds are in thousandths
d2p99(mahalanobis2) == IF RatGreater(mahalanobis2, 9210) THEN FALSE ELSE TRUE

\* d2p95 with the 99% quantile in place of the 95% one
d2p95_loose(mahalanobis2) ==
    IF RatGreater(mahalanobis2, 9210) THEN FALSE ELSE TRUE

d2p95(mahalanobis2) == IF RatGreater(mahalanobis2, 5991) THEN FALSE ELSE TRUE

accept_any_mahalanobis_distance(mahalanobis2) == TRUE

\* the gate handed to update
Gate(mt, mahalanobis2) ==
    CASE mt = "d2p95" -> d2p95(mahalanobis2)
      [] mt = "d2p99" -> d2p99(mahalanobis2)
      [] OTHER -> accept_any_mahalanobis_distance(mahalanobis2)

\* ------------------------------------------------------------------------
\* boost::bind: a function with all arguments but the sigma point bound
\* ------------------------------------------------------------------------
\* h without a collaborator: the dynamic model is not touched
Pure(z, dm) == [z |-> z, dm |-> dm, seen |-> dm]

\* bound is [fn, the bound arguments]; the value is [z, dm, seen]
ApplyMeasurement(bound, state, dm) ==
    CASE bound.fn = "measurementXYPosition" ->
            Pure(measurementXYPosition(state), dm)
      [] bound.fn = "measurementZPosition" ->
            Pure(measurementZPosition(state), dm)
      [] bound.fn = "measurementPressureSensor" ->
            Pure(measurementPressureSensor(state, bound.pressure_sensor_in_imu,
                                           bound.atmospheric_pressure), dm)
      [] bound.fn = "measurementVelocity" ->
            Pure(measurementVelocity(state), dm)
      [] bound.fn = "measurementAcceleration" ->
            Pure(measurementAcceleration(state), dm)
      [] bound.fn = "measurementWaterCurrents" ->
            Pure(measurementWaterCurrents(state, bound.cell_weighting), dm)
      [] bound.fn = "measurementEfforts" ->
            measurementEfforts(state, dm, bound.imu_in_body,
                               bound.rotation_rate_body, bound.efforts_sklearn)
      [] bound.fn = "constrainVelocity" ->
            constrainVelocity(state, dm, bound.imu_in_body,
                              bound.rotation_rate_body, bound.water_velocity,
                              bound.orientation, bound.acceleration_body)
      [] bound.fn = "measurementVisualLandmark" ->
            Pure(measurementVisualLandmark(state, bound.feature_pos,
                                           bound.cam_in_imu), dm)

\* bound is processModel's arguments after the state
ApplyProcessModel(bound, state) ==
    processModel(state, bound.rotation_rate, bound.inertia_offset,
                 bound.lin_damping_offset, bound.quad_damping_offset,
                 bound.water_density_offset, bound.delta_t)

\* ------------------------------------------------------------------------
\* The UKF engine (ukfom::ukf), on a diagonal covariance
\* ------------------------------------------------------------------------
\* the manifold a filter runs on: its boxplus, its degrees of freedom
ManifoldBoxPlus(manifold, state, vec) ==
    IF manifold = "PoseStateWithMarker" THEN AugBoxPlus(state, vec)
    ELSE BoxPlus(state, vec)

ManifoldDOF(manifold) ==
    IF manifold = "PoseStateWithMarker" THEN DOF + 3 ELSE DOF

\* The sigma set: the mean, then for every degree of freedom the mean plus
\* and the mean minus the matching column of the covariance's square root
SigmaPoints(mu, sigma, manifold) ==
    LET n == ManifoldDOF(manifold)
    IN  Table([i \in 1..(2 * n + 1) |->
                 IF i = 1 THEN mu
                 ELSE LET k == i \div 2
                          s == IF i % 2 = 0 THEN Isqrt(sigma[k])
                               ELSE -Isqrt(sigma[k])
                      IN  ManifoldBoxPlus(manifold, mu,
                              [j \in 1..n |-> IF j = k THEN s ELSE 0])])

\* the covariance of predict: the spread of the images Y of the sigma points,
\* plus Q
Propagated(Y, Q) ==
    [mu |-> Y[1],
     sigma |->
        Table([g \in 1..DOF |->
            SumOver(Table([k \in 1..DOF |->
                        LET dev == (Coord(Y[2 * k], Dofs[g])
                                    - Coord(Y[2 * k + 1], Dofs[g])) \div 2
                        IN  dev * dev]),
                    1, DOF)
            + Q[g]])]

\* predict(f, Q), f the process model bound to its arguments: the sigma
\* points go through f; the new mean is the image of the centre, the new
\* covariance the spread of the images plus Q
UkfPredict(mu, sigma, bound, Q) ==
    LET X == SigmaPoints(mu, sigma, "PoseState")
    IN  Propagated(Table([i \in 1..(2 * DOF + 1) |->
                             ApplyProcessModel(bound, X[i])]),
                   Q)

\* The evaluations of the bound measurement function on the sigma points
\* X[lo..hi], in order: the first is handed the collaborator's parameters d,
\* each other one those the evaluation before it left
RECURSIVE Evaluations(_, _, _, _, _)
Evaluations(X, bound, lo, hi, d) ==
    IF lo = hi THEN <<ApplyMeasurement(bound, X[lo], d)>>
    ELSE LET mid == (lo + hi) \div 2
             left == Evaluations(X, bound, lo, mid, d)
         IN  left \o Evaluations(X, bound, mid + 1, hi, left[Len(left)].dm)

\* The correction of update: from the evaluations H of h on the sigma points
\* X, the posterior (equal to the prior when the gate mt refuses the squared
\* Mahalanobis distance), the gate's input and answer, and every evaluation
Corrected(mu, sigma, manifold, z, R, mt, X, H) ==
    LET n == ManifoldDOF(manifold)
        N == 2 * n + 1
        m == Len(z)
        dz == Table([k \in 1..n |->
                 Table([c \in 1..m |->
                    (H[2 * k].z[c] - H[2 * k + 1].z[c]) \div 2])])
        S == Table([c \in 1..m |->
                R[c] + SumOver(Table([k \in 1..n |-> dz[k][c] * dz[k][c]]),
                               1, n)])
        innovation == Table([c \in 1..m |-> z[c] - H[1].z[c]])
        mahalanobis2 ==
            LET acc[c \in 0..m] ==
                    IF c = 0 THEN <<0, 1>>
                    ELSE RatAdd(acc[c - 1],
                                <<innovation[c] * innovation[c], S[c]>>)
            IN  acc[m]
        accepted == Gate(mt, mahalanobis2)
        \* K * innovation and the diagonal of K * S * K^T
        gain == Table([k \in 1..n |->
                    LET root == Isqrt(sigma[k])
                    IN  [delta |->
                            SumOver(Table([c \in 1..m |->
                                (root * dz[k][c] * innovation[c]) \div S[c]]),
                                1, m),
                         shrink |->
                            SumOver(Table([c \in 1..m |->
                                (root * dz[k][c] * root * dz[k][c])
                                    \div S[c]]),
                                1, m)]])
    IN  [mu |-> IF accepted
                THEN ManifoldBoxPlus(manifold, mu,
                                     [k \in 1..n |-> gain[k].delta])
                ELSE mu,
         sigma |-> IF accepted
                   THEN Table([k \in 1..n |-> sigma[k] - gain[k].shrink])
                   ELSE sigma,
         mahalanobis2 |-> mahalanobis2,
         accepted |-> accepted,
         dm |-> H[N].dm,
         evaluations |->
             Table([i \in 1..N |->
                      [state |-> X[i], seen |-> H[i].seen, z |-> H[i].z]])]

\* update(z, h, R, mt), h a measurement function bound to its arguments and
\* mt the gate.  An evaluation of h is [z, dm, seen]: the collaborator's
\* parameters dm are handed from one evaluation to the next, in the order of
\* the sigma set.  R is the diagonal of the measurement noise.
UkfUpdate(mu, sigma, manifold, z, bound, R, mt, dm) ==
    LET X == SigmaPoints(mu, sigma, manifold)
    IN  Corrected(mu, sigma, manifold, z, R, mt, X,
                  Evaluations(X, bound, 1, 2 * ManifoldDOF(manifold) + 1, dm))

\* ------------------------------------------------------------------------
\* pose_estimation::UnscentedKalmanFilter<PoseState>, the base class
\* ------------------------------------------------------------------------
\* checkMeasurment(mu, cov) returns (TRUE) for a sample it lets through and
\* leaves the calling integrateMeasurement at once (FALSE) for a bad one: a
\* non-finite entry of mu or cov, or a cov that is not positive semidefinite
checkMeasurment(mu, cov) ==
    /\ \A c \in DOMAIN mu : mu[c] # NaN
    /\ \A c \in DOMAIN cov : cov[c] # NaN
    /\ \A c \in DOMAIN cov : cov[c] >= 0

\* rot * Q_orientation * rot^T: a yaw rotation leaves the yaw variance alone
RotateCov(rot, c) == c

\* ------------------------------------------------------------------------
\* PoseUKF: the filter's state
\* ------------------------------------------------------------------------
VARIABLES
    ukf,                  \* [mu, sigma] of the inner filter
    rotation_rate,        \* the latched RotationRate::Mu
    dynamic_model,        \* the hydrodynamic model's parameters
    inertia_offset, lin_damping_offset, quad_damping_offset,
    water_density_offset, \* relaxation targets
    process_noise_cov,    \* the stored process noise
    initial_state,        \* the initial_state the constructor was given
    pc,                   \* "idle", "visual" (inside the visual-marker
                          \* update) or "crashed"
    visual,               \* locals of the running visual-marker update
    gyro_sample,          \* mu of the last RotationRate sample integrated
    last,                 \* what the last call did
    calls                 \* public calls made so far

vars == <<ukf, rotation_rate, dynamic_model, inertia_offset,
          lin_damping_offset, quad_damping_offset, water_density_offset,
          process_noise_cov, initial_state, pc, visual, gyro_sample, last,
          calls>>

\* no visual-marker update running; no hydrodynamic model at hand
Null == [none |-> TRUE]

\* no sample handled
NoSample == [mu |-> <<>>, cov |-> <<>>]

\* ------------------------------------------------------------------------
\* Inputs
\* ------------------------------------------------------------------------
\* one state level in the water with the model's inertia, one sinking with
\* another inertia
InitialStates ==
    {[position |-> <<0, -1>>, orientation |-> 0, velocity |-> <<1, i - 1>>,
      acceleration |-> <<1, 0>>, bias_gyro |-> 0, bias_acc |-> 0,
      gravity |-> 1, inertia |-> i, lin_damping |-> 1, quad_damping |-> 1,
      water_velocity |-> 0, water_velocity_below |-> 0, bias_adcp |-> 0,
      water_density |-> 1] : i \in {1, 2}}

StateCov == [k \in 1..DOF |-> 4]

ProcessNoiseCov == [k \in 1..DOF |-> 1]

ModelParameters ==
    [inertia_matrix |-> <<1, 1, 1>>, damping_lin |-> <<1, 1, 1>>,
     damping_quad |-> <<1, 1, 1>>]

\* a sample of dimension dim: value v along the first axis, unit noise
Good(dim, v) ==
    [mu |-> [c \in 1..dim |-> IF c = 1 THEN v ELSE 0],
     cov |-> [c \in 1..dim |-> 1]]

\* samples checkMeasurment refuses
Bad(dim) ==
    {[Good(dim, 5) EXCEPT !.mu[1] = NaN],
     [Good(dim, 5) EXCEPT !.cov[1] = -1]}

Samples(dim, values) == {Good(dim, v) : v \in values} \cup Bad(dim)

DeltaTs == {-1, 0, 1, 2}

\* what predict_efforts may return: <<surge, yaw>>
SvrOutputs == {<<0, 0>>, <<3, 0>>}

CellWeightings == {0, 1}

\* ------------------------------------------------------------------------
\* PoseUKF: construction, prediction, measurement integration
\* ------------------------------------------------------------------------
\* What a call hands back: the filter's members after it, and what it did.
\* outcome: "applied" (update run and accepted), "rejected" (update run and
\* refused by the gate), "thrown" (left through checkMeasurment), "latched".
\* steps: the engine operations the call ran, in order.  efforts: for every
\* calcEfforts call, the state evaluated and the parameters the model held.
Updated(r, rr) ==
    [ukf |-> [mu |-> r.mu, sigma |-> r.sigma],
     dynamic_model |-> r.dm,
     rotation_rate |-> rr,
     outcome |-> IF r.accepted THEN "applied" ELSE "rejected",
     d2 |-> r.mahalanobis2,
     steps |-> <<"update">>,
     efforts |-> <<>>]

Thrown(u, dm, rr) ==
    [ukf |-> u, dynamic_model |-> dm, rotation_rate |-> rr,
     outcome |-> "thrown", d2 |-> <<0, 1>>, steps |-> <<>>, efforts |-> <<>>]

PoseUKF_ukf(init_state, state_cov) == [mu |-> init_state, sigma |-> state_cov]

\* predictionStepImpl handing the process model a zero rotation rate
predictionStepImpl_zero_gyro(u, rr, Qcov, inertia_off, lin_damping_off, quad_damping_off, water_density_off, delta_t) ==
    LET rot == u.mu.orientation
        scaled_velocity == <<u.mu.velocity[1], 10 * u.mu.velocity[2]>>
        squaredNorm == scaled_velocity[1] * scaled_velocity[1]
                       + scaled_velocity[2] * scaled_velocity[2]
        modulated ==
            [k \in 1..DOF |->
                IF Dofs[k][1] = "orientation" THEN RotateCov(rot, Qcov[k])
                ELSE IF Dofs[k][1] \in {"water_velocity", "water_velocity_below"}
                THEN Qcov[k] + filter_parameter.water_velocity_scale
                               * squaredNorm * delta_t
                ELSE Qcov[k]]
        process_noise == [k \in 1..DOF |-> delta_t * delta_t * modulated[k]]
    IN  [ukf |-> UkfPredict(u.mu, u.sigma,
                            [rotation_rate |-> 0, inertia_offset |-> inertia_off,
                             lin_damping_offset |-> lin_damping_off,
                             quad_damping_offset |-> quad_damping_off,
                             water_density_offset |-> water_density_off,
                             delta_t |-> delta_t],
                            process_noise),
         process_noise |-> process_noise,
         gyro |-> rr,
         process_noise_cov |-> Qcov]

\* predictionStepImpl relaxing toward the fields of the current mean
predictionStepImpl_following_estimate(u, rr, Qcov, inertia_off, lin_damping_off, quad_damping_off, water_density_off, delta_t) ==
    LET rot == u.mu.orientation
        scaled_velocity == <<u.mu.velocity[1], 10 * u.mu.velocity[2]>>
        squaredNorm == scaled_velocity[1] * scaled_velocity[1]
                       + scaled_velocity[2] * scaled_velocity[2]
        modulated ==
            [k \in 1..DOF |->
                IF Dofs[k][1] = "orientation" THEN RotateCov(rot, Qcov[k])
                ELSE IF Dofs[k][1] \in {"water_velocity", "water_velocity_below"}
                THEN Qcov[k] + filter_parameter.water_velocity_scale
                               * squaredNorm * delta_t
                ELSE Qcov[k]]
        process_noise == [k \in 1..DOF |-> delta_t * delta_t * modulated[k]]
    IN  [ukf |-> UkfPredict(u.mu, u.sigma,
                            [rotation_rate |-> rr[1], inertia_offset |-> u.mu.inertia,
                             lin_damping_offset |-> u.mu.lin_damping,
                             quad_damping_offset |-> u.mu.quad_damping,
                             water_density_offset |-> u.mu.water_density,
                             delta_t |-> delta_t],
                            process_noise),
         process_noise |-> process_noise,
         gyro |-> rr,
         process_noise_cov |-> Qcov]

\* predictionStepImpl keeping the modulated noise as the stored one
predictionStepImpl_storing(u, rr, Qcov, inertia_off, lin_damping_off, quad_damping_off, water_density_off, delta_t) ==
    LET rot == u.mu.orientation
        scaled_velocity == <<u.mu.velocity[1], 10 * u.mu.velocity[2]>>
        squaredNorm == scaled_velocity[1] * scaled_velocity[1]
                       + scaled_velocity[2] * scaled_velocity[2]
        modulated ==
            [k \in 1..DOF |->
                IF Dofs[k][1] = "orientation" THEN RotateCov(rot, Qcov[k])
                ELSE IF Dofs[k][1] \in {"water_velocity", "water_velocity_below"}
                THEN Qcov[k] + filter_parameter.water_velocity_scale
                               * squaredNorm * delta_t
                ELSE Qcov[k]]
        process_noise == [k \in 1..DOF |-> delta_t * delta_t * modulated[k]]
    IN  [ukf |-> UkfPredict(u.mu, u.sigma,
                            [rotation_rate |-> rr[1], inertia_offset |-> inertia_off,
                             lin_damping_offset |-> lin_damping_off,
                             quad_damping_offset |-> quad_damping_off,
                             water_density_offset |-> water_density_off,
                             delta_t |-> delta_t],
                            process_noise),
         process_noise |-> process_noise,
         gyro |-> rr,
         process_noise_cov |-> process_noise]

predictionStepImpl(u, rr, Qcov, inertia_off, lin_damping_off, quad_damping_off, water_density_off, delta_t) ==
    LET rot == u.mu.orientation
        scaled_velocity == <<u.mu.velocity[1], 10 * u.mu.velocity[2]>>
        squaredNorm == scaled_velocity[1] * scaled_velocity[1]
                       + scaled_velocity[2] * scaled_velocity[2]
        modulated ==
            [k \in 1..DOF |->
                IF Dofs[k][1] = "orientation" THEN RotateCov(rot, Qcov[k])
                ELSE IF Dofs[k][1] \in {"water_velocity", "water_velocity_below"}
                THEN Qcov[k] + filter_parameter.water_velocity_scale
                               * squaredNorm * delta_t
                ELSE Qcov[k]]
        process_noise == [k \in 1..DOF |-> delta_t * delta_t * modulated[k]]
    IN  [ukf |-> UkfPredict(u.mu, u.sigma,
                            [rotation_rate |-> rr[1], inertia_offset |-> inertia_off,
                             lin_damping_offset |-> lin_damping_off,
                             quad_damping_offset |-> quad_damping_off,
                             water_density_offset |-> water_density_off,
                             delta_t |-> delta_t],
                            process_noise),
         process_noise |-> process_noise,
         gyro |-> rr,
         process_noise_cov |-> Qcov]

\* integrateMeasurement(Velocity) running a prediction step before the update
integrateMeasurement_Velocity_predicting(u, dm, rr, velocity) ==
    IF ~checkMeasurment(velocity.mu, velocity.cov) THEN Thrown(u, dm, rr)
    ELSE LET p == UkfPredict(u.mu, u.sigma,
                             [rotation_rate |-> rr[1], inertia_offset |-> inertia_offset,
                             lin_damping_offset |-> lin_damping_offset,
                             quad_damping_offset |-> quad_damping_offset,
                             water_density_offset |-> water_density_offset,
                             delta_t |-> 1],
                             process_noise_cov)
             r == Updated(UkfUpdate(p.mu, p.sigma, "PoseState",
                                    velocity.mu,
                                    [fn |-> "measurementVelocity"],
                                    velocity.cov,
                                    "accept_any_mahalanobis_distance", dm),
                          rr)
         IN  [r EXCEPT !.steps = <<"predict", "update">>]

integrateMeasurement_Velocity(u, dm, rr, velocity) ==
    IF ~checkMeasurment(velocity.mu, velocity.cov) THEN Thrown(u, dm, rr)
    ELSE Updated(UkfUpdate(u.mu, u.sigma, "PoseState", velocity.mu,
                           [fn |-> "measurementVelocity"],
                           velocity.cov, "accept_any_mahalanobis_distance", dm),
                 rr)

integrateMeasurement_Acceleration(u, dm, rr, acceleration) ==
    IF ~checkMeasurment(acceleration.mu, acceleration.cov)
    THEN Thrown(u, dm, rr)
    ELSE Updated(UkfUpdate(u.mu, u.sigma, "PoseState", acceleration.mu,
                           [fn |-> "measurementAcceleration"],
                           acceleration.cov, "accept_any_mahalanobis_distance",
                           dm),
                 rr)

\* integrateMeasurement(RotationRate) assigning the member to itself
integrateMeasurement_RotationRate_unlatched(u, dm, rr, rotation_rate_sample) ==
    IF ~checkMeasurment(rotation_rate_sample.mu, rotation_rate_sample.cov)
    THEN Thrown(u, dm, rr)
    ELSE [ukf |-> u, dynamic_model |-> dm, rotation_rate |-> rr,
          outcome |-> "latched", d2 |-> <<0, 1>>, steps |-> <<>>,
          efforts |-> <<>>]

\* integrateMeasurement(RotationRate) latching before checkMeasurment
integrateMeasurement_RotationRate_early(u, dm, rr, rotation_rate_sample) ==
    IF ~checkMeasurment(rotation_rate_sample.mu, rotation_rate_sample.cov)
    THEN Thrown(u, dm, rotation_rate_sample.mu)
    ELSE [ukf |-> u, dynamic_model |-> dm,
          rotation_rate |-> rotation_rate_sample.mu,
          outcome |-> "latched", d2 |-> <<0, 1>>, steps |-> <<>>,
          efforts |-> <<>>]

integrateMeasurement_RotationRate(u, dm, rr, rotation_rate_sample) ==
    IF ~checkMeasurment(rotation_rate_sample.mu, rotation_rate_sample.cov)
    THEN Thrown(u, dm, rr)
    ELSE [ukf |-> u, dynamic_model |-> dm,
          rotation_rate |-> rotation_rate_sample.mu,
          outcome |-> "latched", d2 |-> <<0, 1>>, steps |-> <<>>,
          efforts |-> <<>>]

\* integrateMeasurement(Z_Position) with the gate of XY_Position
integrateMeasurement_Z_Position_gated(u, dm, rr, z_position) ==
    IF ~checkMeasurment(z_position.mu, z_position.cov) THEN Thrown(u, dm, rr)
    ELSE Updated(UkfUpdate(u.mu, u.sigma, "PoseState", z_position.mu,
                           [fn |-> "measurementZPosition"],
                           z_position.cov, "d2p95", dm),
                 rr)

integrateMeasurement_Z_Position(u, dm, rr, z_position) ==
    IF ~checkMeasurment(z_position.mu, z_position.cov) THEN Thrown(u, dm, rr)
    ELSE Updated(UkfUpdate(u.mu, u.sigma, "PoseState", z_position.mu,
                           [fn |-> "measurementZPosition"],
                           z_position.cov, "accept_any_mahalanobis_distance", dm),
                 rr)

integrateMeasurement_XY_Position(u, dm, rr, xy_position) ==
    IF ~checkMeasurment(xy_position.mu, xy_position.cov) THEN Thrown(u, dm, rr)
    ELSE Updated(UkfUpdate(u.mu, u.sigma, "PoseState", xy_position.mu,
                           [fn |-> "measurementXYPosition"],
                           xy_position.cov, "d2p95", dm),
                 rr)

integrateMeasurement_Pressure(u, dm, rr, pressure, pressure_sensor_in_imu) ==
    IF ~checkMeasurment(pressure.mu, pressure.cov) THEN Thrown(u, dm, rr)
    ELSE Updated(UkfUpdate(u.mu, u.sigma, "PoseState", pressure.mu,
                           [fn |-> "measurementPressureSensor",
                            pressure_sensor_in_imu |-> pressure_sensor_in_imu,
                            atmospheric_pressure |->
                                filter_parameter.atmospheric_pressure],
                           pressure.cov, "accept_any_mahalanobis_distance", dm),
                 rr)

integrateMeasurement_GeographicPosition(u, dm, rr, geo_position, gps_in_body) ==
    IF ~checkMeasurment(geo_position.mu, geo_position.cov)
    THEN Thrown(u, dm, rr)
    ELSE LET projected_position ==
                 <<worldToNav(geo_position.mu[1])
                   - Rotate(u.mu.orientation, gps_in_body)[1]>>
         IN  Updated(UkfUpdate(u.mu, u.sigma, "PoseState",
                               projected_position,
                               [fn |-> "measurementXYPosition"],
                               geo_position.cov, "d2p95", dm),
                     rr)

getRotationRate(u, rr) ==
    LET latitude == navToWorld(u.mu.position[1])
        earth_rotation == EarthRotation(latitude)
    IN  <<rr[1] - u.mu.bias_gyro - earth_rotation>>

\* every calcEfforts call of an update, from the engine's evaluations of h
EffortsCalls(r) ==
    [i \in DOMAIN r.evaluations |->
        [inertia |-> r.evaluations[i].state.inertia,
         lin_damping |-> r.evaluations[i].state.lin_damping,
         quad_damping |-> r.evaluations[i].state.quad_damping,
         seen |-> r.evaluations[i].seen,
         state |-> r.evaluations[i].state,
         z |-> r.evaluations[i].z]]

integrateMeasurement_BodyEfforts(u, dm, rr, body_efforts, only_affect_velocity, efforts_sklearn) ==
    IF ~checkMeasurment(body_efforts.mu, body_efforts.cov)
    THEN Thrown(u, dm, rr)
    ELSE IF only_affect_velocity
    THEN LET water_velocity == <<u.mu.water_velocity, 0>>
             rotation_rate_body == getRotationRate(u, rr)[1]
             acceleration_body ==
                 VSub(Rotate(Inverse(u.mu.orientation), u.mu.acceleration),
                      Cross(rotation_rate_body,
                            Cross(rotation_rate_body,
                                  filter_parameter.imu_in_body)))
             r == UkfUpdate(u.mu, u.sigma, "PoseState", body_efforts.mu,
                            [fn |-> "constrainVelocity",
                             imu_in_body |-> filter_parameter.imu_in_body,
                             rotation_rate_body |-> rotation_rate_body,
                             water_velocity |-> water_velocity,
                             orientation |-> u.mu.orientation,
                             acceleration_body |-> acceleration_body],
                            body_efforts.cov, "accept_any_mahalanobis_distance",
                            dm)
         IN  [Updated(r, rr) EXCEPT !.efforts = EffortsCalls(r)]
    ELSE LET r == UkfUpdate(u.mu, u.sigma, "PoseState", body_efforts.mu,
                            [fn |-> "measurementEfforts",
                             imu_in_body |-> filter_parameter.imu_in_body,
                             rotation_rate_body |-> getRotationRate(u, rr)[1],
                             efforts_sklearn |-> efforts_sklearn],
                            body_efforts.cov, "accept_any_mahalanobis_distance",
                            dm)
         IN  [Updated(r, rr) EXCEPT !.efforts = EffortsCalls(r)]

integrateMeasurement_WaterVelocity(u, dm, rr, adcp_measurements, cell_weighting) ==
    IF ~checkMeasurment(adcp_measurements.mu, adcp_measurements.cov)
    THEN Thrown(u, dm, rr)
    ELSE Updated(UkfUpdate(u.mu, u.sigma, "PoseState",
                           adcp_measurements.mu,
                           [fn |-> "measurementWaterCurrents",
                            cell_weighting |-> cell_weighting],
                           adcp_measurements.cov, "d2p95", dm),
                 rr)

\* ------------------------------------------------------------------------
\* The visual-marker update
\* ------------------------------------------------------------------------
camera_config == [fx |-> 1, fy |-> 1, cx |-> 1, cy |-> 1]

camera_in_IMU == [rotation |-> 0, translation |-> Zero2]

\* lines 454-461: the augmented filter, block-diagonal covariance
\* the augmented filter without the filter's covariance in its top-left block
visualAugment_zero_cov(u, marker_pose, cov_marker_pose) ==
    [mu |-> [filter_state |-> u.mu,
             marker_position |-> marker_pose.translation,
             marker_orientation |-> marker_pose.rotation],
     sigma |-> [k \in 1..(DOF + 3) |->
                  IF k <= DOF THEN 0 ELSE cov_marker_pose[k - DOF]]]

visualAugment(u, marker_pose, cov_marker_pose) ==
    [mu |-> [filter_state |-> u.mu,
             marker_position |-> marker_pose.translation,
             marker_orientation |-> marker_pose.rotation],
     sigma |-> [k \in 1..(DOF + 3) |->
                  IF k <= DOF THEN u.sigma[k] ELSE cov_marker_pose[k - DOF]]]

\* lines 472-482: one feature, applied on the augmented filter
visualFeature(aug, corner, feature_pos) ==
    LET fx2 == camera_config.fx * camera_config.fx
        projection ==
            <<S2(<<(corner.mu[1] - camera_config.cx) \div camera_config.fx,
                   1>>)>>
        projection_cov == <<corner.cov[1] \div fx2>>
        r == UkfUpdate(aug.mu, aug.sigma, "PoseStateWithMarker",
                       projection,
                       [fn |-> "measurementVisualLandmark", feature_pos |-> feature_pos,
                        cam_in_imu |-> camera_in_IMU],
                       projection_cov, "accept_any_mahalanobis_distance", Null)
    IN  [mu |-> r.mu, sigma |-> r.sigma, accepted |-> r.accepted,
         mahalanobis2 |-> r.mahalanobis2]

\* the write-back taking the bottom-right block of the covariance
visualWriteBack_bottom_right(aug) ==
    [mu |-> aug.mu.filter_state,
     sigma |-> [k \in 1..DOF |-> aug.sigma[k + 3]]]

\* line 487: the inner filter is rebuilt from the PoseState partition
visualWriteBack(aug) ==
    [mu |-> aug.mu.filter_state, sigma |-> [k \in 1..DOF |-> aug.sigma[k]]]

\* line 468: the loop's condition
visualLoopCondition(i, marker_corners, feature_positions) ==
    i < Len(marker_corners) \/ i < Len(feature_positions)

\* Inputs of the visual-marker update
GoodCorner == Good(1, 2)
BadCorner == [Good(1, 2) EXCEPT !.mu[1] = NaN]

GoodCorners(n) == [j \in 1..n |-> GoodCorner]

FeaturePosition(j) == <<2 * (j - 1), 0>>

FeaturePositions(n) == [j \in 1..n |-> FeaturePosition(j)]

\* <<marker_corners, feature_positions>>: lists of equal length, all corners
\* good or the last one bad, and lists whose lengths differ by one
VisualLists ==
    UNION {{<<GoodCorners(n), FeaturePositions(n)>>,
            <<[j \in 1..n |-> IF j = n THEN BadCorner ELSE GoodCorner],
              FeaturePositions(n)>>} : n \in 0..MaxFeatures}
    \cup UNION {{<<GoodCorners(n), FeaturePositions(n - 1)>>,
                 <<GoodCorners(n - 1), FeaturePositions(n)>>} :
                    n \in 1..MaxFeatures}

MarkerPoses ==
    {[translation |-> <<4, 1>>, rotation |-> 1],
     [translation |-> <<-3, 2>>, rotation |-> 0]}

CovMarkerPoses == {<<1, 1, 1>>, <<2, 3, 9>>}

\* ------------------------------------------------------------------------
\* The state machine
\* ------------------------------------------------------------------------
\* whether a calcEfforts call saw the parameters of the state it evaluated
Injected(call) ==
    /\ call.seen.inertia_matrix[1] = call.inertia
    /\ call.seen.inertia_matrix[3] = call.inertia
    /\ call.seen.damping_lin[1] = call.lin_damping
    /\ call.seen.damping_lin[3] = call.lin_damping
    /\ call.seen.damping_quad[1] = call.quad_damping
    /\ call.seen.damping_quad[3] = call.quad_damping

NoCall ==
    [op |-> "none", kind |-> "none", sample |-> NoSample, outcome |-> "none",
     d2 |-> <<0, 1>>, steps |-> <<>>, gyro |-> <<>>, delta_t |-> 0,
     noise |-> <<>>, value |-> <<>>, calc_calls |-> 0, injected |-> TRUE,
     features |-> 0, prior |-> <<>>, efforts |-> <<>>, marker |-> <<>>]

\* PoseUKF::PoseUKF
Init ==
    \E s0 \in InitialStates :
        /\ initial_state = s0
        /\ ukf = PoseUKF_ukf(s0, StateCov)
        /\ rotation_rate = <<0>>
        /\ dynamic_model = ModelParameters
        /\ inertia_offset = s0.inertia
        /\ lin_damping_offset = s0.lin_damping
        /\ quad_damping_offset = s0.quad_damping
        /\ water_density_offset = s0.water_density
        /\ process_noise_cov = ProcessNoiseCov
        /\ pc = "idle"
        /\ visual = Null
        /\ gyro_sample = <<>>
        /\ last = NoCall
        /\ calls = 0

Callable == pc = "idle" /\ calls < MaxCalls

\* the members a returned integrateMeasurement leaves behind
Integrated(kind, sample, r) ==
    /\ ukf' = r.ukf
    /\ dynamic_model' = r.dynamic_model
    /\ rotation_rate' = r.rotation_rate
    /\ gyro_sample' = IF r.outcome = "latched" THEN <<sample.mu>>
                      ELSE gyro_sample
    /\ last' = [NoCall EXCEPT
                  !.op = "integrate", !.kind = kind, !.sample = sample,
                  !.outcome = r.outcome, !.d2 = r.d2, !.steps = r.steps,
                  !.calc_calls = Cardinality(DOMAIN r.efforts),
                  !.injected =
                      \A i \in DOMAIN r.efforts : Injected(r.efforts[i]),
                  !.efforts = r.efforts]
    /\ calls' = calls + 1
    /\ UNCHANGED <<inertia_offset, lin_damping_offset, quad_damping_offset,
                   water_density_offset, process_noise_cov, initial_state,
                   pc, visual>>

Predict ==
    /\ Callable
    /\ \E delta_t \in DeltaTs :
        LET r == predictionStepImpl(ukf, rotation_rate, process_noise_cov,
                                    inertia_offset, lin_damping_offset,
                                    quad_damping_offset, water_density_offset,
                                    delta_t)
        IN  /\ ukf' = r.ukf
            /\ process_noise_cov' = r.process_noise_cov
            /\ last' = [NoCall EXCEPT
                          !.op = "predict", !.outcome = "predicted",
                          !.steps = <<"predict">>, !.gyro = r.gyro,
                          !.delta_t = delta_t, !.noise = r.process_noise,
                          !.prior = <<ukf.mu>>]
    /\ calls' = calls + 1
    /\ UNCHANGED <<rotation_rate, dynamic_model, inertia_offset,
                   lin_damping_offset, quad_damping_offset,
                   water_density_offset, initial_state, pc, visual,
                   gyro_sample>>

IntegrateVelocity ==
    /\ Callable
    /\ \E sample \in Samples(2, {6}) :
        Integrated("Velocity", sample,
                   integrateMeasurement_Velocity(ukf, dynamic_model,
                                                 rotation_rate, sample))

IntegrateAcceleration ==
    /\ Callable
    /\ \E sample \in Samples(2, {6}) :
        Integrated("Acceleration", sample,
                   integrateMeasurement_Acceleration(ukf, dynamic_model,
                                                     rotation_rate, sample))

IntegrateRotationRate ==
    /\ Callable
    /\ \E sample \in Samples(1, {5, 6}) :
        Integrated("RotationRate", sample,
                   integrateMeasurement_RotationRate(ukf, dynamic_model,
                                                     rotation_rate, sample))

IntegrateZPosition ==
    /\ Callable
    /\ \E sample \in Samples(1, {6}) :
        Integrated("Z_Position", sample,
                   integrateMeasurement_Z_Position(ukf, dynamic_model,
                                                   rotation_rate, sample))

IntegrateXYPosition ==
    /\ Callable
    /\ \E sample \in Samples(1, {5, 6}) :
        Integrated("XY_Position", sample,
                   integrateMeasurement_XY_Position(ukf, dynamic_model,
                                                    rotation_rate, sample))

IntegratePressure ==
    /\ Callable
    /\ \E sample \in Samples(1, {6}) :
        Integrated("Pressure", sample,
                   integrateMeasurement_Pressure(ukf, dynamic_model,
                                                 rotation_rate, sample, Zero2))

IntegrateGeographicPosition ==
    /\ Callable
    /\ \E sample \in Samples(1, {6, 7}) :
        Integrated("GeographicPosition", sample,
                   integrateMeasurement_GeographicPosition(
                       ukf, dynamic_model, rotation_rate, sample, Zero2))

\* The full mode writes X[0..5] of a base::VectorXd that was never sized
\* (lines 193-200): the call either goes on, predict_efforts returning
\* anything, or the process dies (IntegrateBodyEffortsCrash).
IntegrateBodyEfforts ==
    /\ Callable
    /\ \E sample \in Samples(3, {6}), only_affect_velocity \in BOOLEAN,
          efforts_sklearn \in SvrOutputs :
        /\ (only_affect_velocity \/ ~checkMeasurment(sample.mu, sample.cov))
              => efforts_sklearn = <<0, 0>>
        /\ Integrated(IF only_affect_velocity THEN "BodyEffortsVelocityOnly"
                      ELSE "BodyEffortsFull",
                      sample,
                      integrateMeasurement_BodyEfforts(
                          ukf, dynamic_model, rotation_rate, sample,
                          only_affect_velocity, efforts_sklearn))

IntegrateBodyEffortsCrash ==
    /\ Callable
    /\ \E sample \in Samples(3, {6}) :
        /\ checkMeasurment(sample.mu, sample.cov)
        /\ last' = [NoCall EXCEPT
                      !.op = "integrate", !.kind = "BodyEffortsFull",
                      !.sample = sample, !.outcome = "crashed"]
    /\ pc' = "crashed"
    /\ calls' = calls + 1
    /\ UNCHANGED <<ukf, rotation_rate, dynamic_model, inertia_offset,
                   lin_damping_offset, quad_damping_offset,
                   water_density_offset, process_noise_cov, initial_state,
                   visual, gyro_sample>>

IntegrateWaterVelocity ==
    /\ Callable
    /\ \E sample \in Samples(1, {5, 10}), cell_weighting \in CellWeightings :
        /\ ~checkMeasurment(sample.mu, sample.cov) => cell_weighting = 0
        /\ Integrated("WaterVelocityMeasurement", sample,
                   integrateMeasurement_WaterVelocity(
                       ukf, dynamic_model, rotation_rate, sample,
                       cell_weighting))

GetRotationRate ==
    /\ Callable
    /\ last' = [NoCall EXCEPT
                  !.op = "getRotationRate", !.outcome = "returned",
                  !.gyro = rotation_rate,
                  !.value = getRotationRate(ukf, rotation_rate)]
    /\ calls' = calls + 1
    /\ UNCHANGED <<ukf, rotation_rate, dynamic_model, inertia_offset,
                   lin_damping_offset, quad_damping_offset,
                   water_density_offset, process_noise_cov, initial_state,
                   pc, visual, gyro_sample>>

\* The visual-marker update, one action per stretch of its body: the set-up
\* (lines 453-465), one turn of the loop (lines 468-484), the write-back
\* (line 487).  Nothing else runs while pc = "visual".
VisualBegin ==
    /\ Callable
    /\ \E lists \in VisualLists,
          marker_pose \in MarkerPoses, cov_marker_pose \in CovMarkerPoses :
        \* the second marker pose and covariance come with the empty lists
        /\ lists # <<GoodCorners(0), FeaturePositions(0)>>
              => /\ marker_pose = [translation |-> <<4, 1>>, rotation |-> 1]
                 /\ cov_marker_pose = <<1, 1, 1>>
        /\ visual' = [augmented_ukf |->
                          visualAugment(ukf, marker_pose, cov_marker_pose),
                      i |-> 0,
                      marker_corners |-> lists[1],
                      feature_positions |-> lists[2],
                      marker_pose |-> marker_pose,
                      cov_marker_pose |-> cov_marker_pose,
                      out_of_range |-> FALSE]
        /\ last' = [NoCall EXCEPT !.op = "integrate", !.kind = "Visual",
                                  !.outcome = "running",
                                  !.marker = <<marker_pose, cov_marker_pose>>]
    /\ pc' = "visual"
    /\ calls' = calls + 1
    /\ UNCHANGED <<ukf, rotation_rate, dynamic_model, inertia_offset,
                   lin_damping_offset, quad_damping_offset,
                   water_density_offset, process_noise_cov, initial_state,
                   gyro_sample>>

\* what marker_corners[i] and feature_positions[i] may read: the element, or,
\* past the end of the vector, anything
ReadCorner(v) ==
    IF v.i < Len(v.marker_corners) THEN {v.marker_corners[v.i + 1]}
    ELSE {GoodCorner, BadCorner}

ReadFeaturePosition(v) ==
    IF v.i < Len(v.feature_positions) THEN {v.feature_positions[v.i + 1]}
    ELSE {FeaturePosition(1), FeaturePosition(2)}

OutOfRange(v) ==
    v.i >= Len(v.marker_corners) \/ v.i >= Len(v.feature_positions)

VisualFeature ==
    /\ pc = "visual"
    /\ visualLoopCondition(visual.i, visual.marker_corners,
                           visual.feature_positions)
    /\ \E corner \in ReadCorner(visual),
          feature_pos \in ReadFeaturePosition(visual) :
        IF ~checkMeasurment(corner.mu, corner.cov)
        THEN /\ pc' = "idle"
             /\ visual' = Null
             /\ last' = [last EXCEPT !.outcome = "thrown", !.sample = corner]
        ELSE LET r == visualFeature(visual.augmented_ukf, corner,
                                    feature_pos)
             IN  /\ pc' = pc
                 /\ visual' = [visual EXCEPT
                                 !.augmented_ukf =
                                     [mu |-> r.mu, sigma |-> r.sigma],
                                 !.i = @ + 1,
                                 !.out_of_range = @ \/ OutOfRange(visual)]
                 /\ last' = [last EXCEPT
                               !.steps = Append(@, "update"),
                               !.d2 = r.mahalanobis2,
                               !.features =
                                   IF r.accepted THEN @ + 1 ELSE @]
    /\ UNCHANGED <<ukf, rotation_rate, dynamic_model, inertia_offset,
                   lin_damping_offset, quad_damping_offset,
                   water_density_offset, process_noise_cov, initial_state,
                   gyro_sample, calls>>

\* a read past the end of a vector may also end the process
VisualCrash ==
    /\ pc = "visual"
    /\ visualLoopCondition(visual.i, visual.marker_corners,
                           visual.feature_positions)
    /\ OutOfRange(visual)
    /\ pc' = "crashed"
    /\ visual' = [visual EXCEPT !.out_of_range = TRUE]
    /\ last' = [last EXCEPT !.outcome = "crashed"]
    /\ UNCHANGED <<ukf, rotation_rate, dynamic_model, inertia_offset,
                   lin_damping_offset, quad_damping_offset,
                   water_density_offset, process_noise_cov, initial_state,
                   gyro_sample, calls>>

VisualEnd ==
    /\ pc = "visual"
    /\ ~visualLoopCondition(visual.i, visual.marker_corners,
                            visual.feature_positions)
    /\ ukf' = visualWriteBack(visual.augmented_ukf)
    /\ pc' = "idle"
    /\ visual' = Null
    /\ last' = [last EXCEPT !.outcome = "applied"]
    /\ UNCHANGED <<rotation_rate, dynamic_model, inertia_offset,
                   lin_damping_offset, quad_damping_offset,
                   water_density_offset, process_noise_cov, initial_state,
                   gyro_sample, calls>>

Next ==
    \/ Predict
    \/ IntegrateVelocity
    \/ IntegrateAcceleration
    \/ IntegrateRotationRate
    \/ IntegrateZPosition
    \/ IntegrateXYPosition
    \/ IntegratePressure
    \/ IntegrateGeographicPosition
    \/ IntegrateBodyEfforts
    \/ IntegrateBodyEffortsCrash
    \/ IntegrateWaterVelocity
    \/ GetRotationRate
    \/ VisualBegin
    \/ VisualFeature
    \/ VisualCrash
    \/ VisualEnd

Spec == Init /\ [][Next]_vars


\* ------------------------------------------------------------------------
\* Properties
\* ------------------------------------------------------------------------
\* the measurement kinds integrated behind the 95% gate
GatedKinds == {"XY_Position", "GeographicPosition", "WaterVelocityMeasurement"}

\* the step is one whole integrateMeasurement call of a single sample
IntegrateStep ==
    /\ calls' = calls + 1
    /\ last'.op = "integrate"
    /\ last'.kind # "Visual"

\* the step is one whole predictionStepImpl call
PredictStep == calls' = calls + 1 /\ last'.op = "predict"

\* C1: when the gate of a gated kind (XY_Position, GeographicPosition,
\* WaterVelocityMeasurement) refuses the squared Mahalanobis distance of the
\* innovation (d2 > 5.991), the update leaves mean and covariance as they
\* were before the call.
C1_RejectedUpdateIsNoOp ==
    [][(IntegrateStep /\ last'.kind \in GatedKinds
            /\ RatGreater(last'.d2, 5991))
        => ukf' = ukf]_vars

C1_Witness ==
    /\ last.kind = "XY_Position"
    /\ last.outcome = "rejected"
    /\ RatGreater(last.d2, 5991)

\* C2: an update of a gated kind is applied exactly when d2 <= 5.991; an
\* update of any other kind, and every feature of a visual-marker update, is
\* applied whatever d2 is.
C2_GatePolicy ==
    /\ (last.op = "integrate" /\ last.outcome \in {"applied", "rejected"}
            /\ last.kind # "Visual")
        => IF last.kind \in GatedKinds
           THEN last.outcome = "applied" <=> ~RatGreater(last.d2, 5991)
           ELSE last.outcome = "applied"
    /\ (last.op = "integrate" /\ last.kind = "Visual")
        => last.features = Len(last.steps)

C2_Witness ==
    /\ last.kind = "Z_Position"
    /\ last.outcome = "applied"
    /\ RatGreater(last.d2, 5991)

\* C3 as the specification states it: within each integrateMeasurement call
\* other than RotationRate the filter is first predicted over the time since
\* the previous step and then updated.
C3_PredictThenUpdate ==
    (last.op = "integrate" /\ last.kind # "RotationRate"
        /\ last.outcome \in {"applied", "rejected"})
    => /\ last.steps # <<>>
       /\ last.steps[1] = "predict"
       /\ last.steps[Len(last.steps)] = "update"

\* C3, amended: an integrateMeasurement call other than RotationRate runs
\* the update alone (one per sample, one per feature in the visual-marker
\* update); a prediction runs only in a predictionStepImpl call of its own.
C3_UpdateWithoutPrediction ==
    /\ (last.op = "integrate" /\ last.kind # "RotationRate"
            /\ last.outcome \in {"applied", "rejected"})
        => /\ \A i \in DOMAIN last.steps : last.steps[i] = "update"
           /\ last.kind # "Visual" => Len(last.steps) = 1
    /\ (\E i \in DOMAIN last.steps : last.steps[i] = "predict")
        => last.op = "predict"

C3_Witness ==
    /\ last.kind = "Velocity"
    /\ last.outcome = "applied"
    /\ last.steps = <<"update">>
    /\ ukf.mu.velocity # initial_state.velocity

\* C4: integrating a RotationRate sample that passes checkMeasurment stores
\* its mu as the latched gyro and does nothing else: no prediction, no
\* update, the mean, the covariance, the relaxation targets and the
\* hydrodynamic model's parameters stay as they were.
C4_RotationRateOnlyLatches ==
    [][(IntegrateStep /\ last'.kind = "RotationRate"
            /\ checkMeasurment(last'.sample.mu, last'.sample.cov))
        => /\ rotation_rate' = last'.sample.mu
           /\ last'.steps = <<>>
           /\ UNCHANGED <<ukf, dynamic_model, inertia_offset,
                          lin_damping_offset, quad_damping_offset,
                          water_density_offset, process_noise_cov>>]_vars

C4_Witness ==
    /\ last.kind = "RotationRate"
    /\ last.outcome = "latched"
    /\ rotation_rate = <<5>>
    /\ ukf.mu # initial_state

\* the mu of the most recent RotationRate sample integrated, the zero vector
\* when there has been none
LatchedGyro == IF gyro_sample = <<>> THEN <<0>> ELSE gyro_sample[1]

\* C5: the latched gyro is at all times the mu of the most recent
\* RotationRate sample integrated (zero before the first); every prediction
\* step feeds the process model that value, and getRotationRate returns it
\* less the gyro bias and the Earth rotation.  No other call changes it.
C5_LatestGyroUsed ==
    /\ [](rotation_rate = LatchedGyro)
    /\ [][/\ PredictStep
            => ukf' = UkfPredict(ukf.mu, ukf.sigma,
                                 [rotation_rate |-> LatchedGyro[1], inertia_offset |-> inertia_offset,
                             lin_damping_offset |-> lin_damping_offset,
                             quad_damping_offset |-> quad_damping_offset,
                             water_density_offset |-> water_density_offset,
                             delta_t |-> last'.delta_t],
                                 last'.noise)
          /\ (calls' = calls + 1 /\ last'.op = "getRotationRate")
            => last'.value =
                   <<LatchedGyro[1] - ukf.mu.bias_gyro
                     - EarthRotation(navToWorld(ukf.mu.position[1]))>>
          /\ (last'.kind # "RotationRate" \/ last'.outcome # "latched")
            => rotation_rate' = rotation_rate]_vars

C5_Witness ==
    /\ last.op = "predict"
    /\ last.delta_t = 1
    /\ gyro_sample = << <<5>> >>
    /\ ukf.mu.orientation # initial_state.orientation

\* the step handles a sample that checkMeasurment refuses
BadSampleStep ==
    /\ calls' = calls + 1 \/ pc = "visual"
    /\ last'.op = "integrate"
    /\ ~checkMeasurment(last'.sample.mu, last'.sample.cov)

\* C6: a sample that checkMeasurment refuses is skipped: no update runs,
\* nothing is latched, and mean, covariance and the hydrodynamic model stay
\* as they were.  In the visual-marker loop the first such corner ends the
\* call, and the features applied before it to the augmented filter are
\* dropped with it.
C6_BadMeasurementSkipped ==
    [][BadSampleStep
        => /\ last'.outcome = "thrown"
           /\ UNCHANGED <<ukf, rotation_rate, dynamic_model>>
           /\ IF pc = "visual"
              THEN last'.steps = last.steps /\ visual' = Null /\ pc' = "idle"
              ELSE last'.steps = <<>>]_vars

C6_Witness ==
    /\ last.kind = "Visual"
    /\ last.outcome = "thrown"
    /\ last.features = 1
    /\ pc = "idle"

\* C7 as the specification states it: a prediction step with a non-positive
\* delta_t is skipped and the mean stays as it was.
C7_NonPositiveStepSkipped ==
    [][(PredictStep /\ last'.delta_t <= 0) => ukf'.mu = ukf.mu]_vars

\* the augmented posterior after the first n features, applied in order
RECURSIVE VisualPosterior(_, _, _, _)
VisualPosterior(aug, marker_corners, feature_positions, n) ==
    IF n = 0 THEN aug
    ELSE LET r == visualFeature(
                      VisualPosterior(aug, marker_corners, feature_positions,
                                      n - 1),
                      marker_corners[n], feature_positions[n])
         IN  [mu |-> r.mu, sigma |-> r.sigma]

\* C8: a visual-marker update with as many corners as feature positions, all
\* corners good, leaves as mean the PoseState part and as covariance the
\* top-left block of the augmented posterior reached by applying the
\* features one after the other to the augmented prior; the main filter is
\* not touched while the call runs, and nothing of the augmented filter
\* lives on after it.
C8_VisualPosteriorWrittenBack ==
    /\ [](pc = "idle" => visual = Null)
    /\ [][/\ pc' = "visual" => ukf' = ukf
          /\ (pc = "visual" /\ pc' = "idle" /\ last'.outcome = "applied"
                /\ ~visual.out_of_range)
            => LET post ==
                       VisualPosterior(
                           visualAugment(ukf, visual.marker_pose,
                                         visual.cov_marker_pose),
                           visual.marker_corners, visual.feature_positions,
                           Len(visual.marker_corners))
               IN  /\ ukf'.mu = post.mu.filter_state
                   /\ ukf'.sigma = [k \in 1..DOF |-> post.sigma[k]]]_vars

C8_Witness ==
    /\ last.kind = "Visual"
    /\ last.outcome = "applied"
    /\ last.features = 2
    /\ pc = "idle"
    /\ ukf.mu # initial_state
    /\ ukf.sigma # StateCov

\* C9 as the specification states it: evaluating a measurement function
\* changes no collaborator; the hydrodynamic model's parameters are the same
\* after any call as before it.
C9_MeasurementFunctionsSideEffectFree ==
    [][dynamic_model' = dynamic_model]_vars

\* C9, amended: every measurement function but measurementEfforts leaves the
\* hydrodynamic model's parameters alone; a full-mode body-efforts update
\* may rewrite the surge and yaw entries of inertia and damping, and leaves
\* the heave entries alone.
C9_OnlyMeasurementEffortsWritesModel ==
    [][IF last'.kind = "BodyEffortsFull"
       THEN /\ dynamic_model'.inertia_matrix[2] = dynamic_model.inertia_matrix[2]
            /\ dynamic_model'.damping_lin[2] = dynamic_model.damping_lin[2]
            /\ dynamic_model'.damping_quad[2] = dynamic_model.damping_quad[2]
       ELSE dynamic_model' = dynamic_model]_vars

C9_Witness ==
    /\ last.kind = "BodyEffortsFull"
    /\ last.outcome = "applied"
    /\ dynamic_model # ModelParameters

\* C10 as the specification states it: in both modes of the body-efforts
\* update, at every calcEfforts call the surge and yaw entries of the
\* model's inertia, linear damping and quadratic damping equal the fields
\* of the state the efforts are evaluated for.
C10_ParametersInjectedBeforeEfforts ==
    (last.op = "integrate"
        /\ last.kind \in {"BodyEffortsFull", "BodyEffortsVelocityOnly"})
    => last.injected

\* C11: the relaxation targets of inertia, lin_damping, quad_damping and
\* water_density are at all times the fields of the initial state the
\* constructor was given, whatever predictions, updates and visual-marker
\* updates have run; a prediction step relaxes those four fields of the mean
\* toward them (not toward the current estimate), water_velocity and
\* water_velocity_below toward 0, and the gyro and accelerometer bias toward
\* the configured offsets.
C11_RelaxationTargetsFromInitialState ==
    /\ [](/\ inertia_offset = initial_state.inertia
          /\ lin_damping_offset = initial_state.lin_damping
          /\ quad_damping_offset = initial_state.quad_damping
          /\ water_density_offset = initial_state.water_density)
    /\ [][PredictStep =>
            LET dt == last'.delta_t
                old == ukf.mu
                new == ukf'.mu
            IN  /\ new.inertia
                     = old.inertia - (old.inertia - initial_state.inertia) * dt
                /\ new.lin_damping
                     = old.lin_damping
                       - (old.lin_damping - initial_state.lin_damping) * dt
                /\ new.quad_damping
                     = old.quad_damping
                       - (old.quad_damping - initial_state.quad_damping) * dt
                /\ new.water_density
                     = old.water_density
                       - (old.water_density - initial_state.water_density) * dt
                /\ new.water_velocity
                     = old.water_velocity - old.water_velocity * dt
                /\ new.water_velocity_below
                     = old.water_velocity_below - old.water_velocity_below * dt
                /\ new.bias_gyro
                     = old.bias_gyro
                       - (old.bias_gyro - filter_parameter.gyro_bias_offset) * dt
                /\ new.bias_acc
                     = old.bias_acc
                       - (old.bias_acc - filter_parameter.acc_bias_offset) * dt
         ]_vars

\* a prediction over one time constant, run after an update had moved the
\* estimated water density away from the initial one, has brought it back
C11_Witness ==
    /\ last.op = "predict"
    /\ last.delta_t = 1
    /\ last.prior[1].water_density # initial_state.water_density
    /\ ukf.mu.water_density = initial_state.water_density
    /\ water_density_offset = initial_state.water_density

\* the state of the pure-translation scenario: velocity one along the first
\* axis, every other field zero
PureTranslation ==
    [position |-> Zero2, orientation |-> 0, velocity |-> <<1, 0>>,
     acceleration |-> Zero2, bias_gyro |-> 0, bias_acc |-> 0, gravity |-> 0,
     inertia |-> 0, lin_damping |-> 0, quad_damping |-> 0,
     water_velocity |-> 0, water_velocity_below |-> 0, bias_adcp |-> 0,
     water_density |-> 0]

\* C12: a prediction step with delta_t > 0 moves the position of the mean by
\* delta_t times the velocity held before the step and the velocity by
\* delta_t times the acceleration held before the step; from the
\* pure-translation state, delta_t = 1 and zero process noise give the
\* position (1, 0).
C12_IncrementsFromPreStepState ==
    /\ [][(PredictStep /\ last'.delta_t > 0) =>
            /\ ukf'.mu.position
                 = VAdd(ukf.mu.position,
                        VScale(last'.delta_t, ukf.mu.velocity))
            /\ ukf'.mu.velocity
                 = VAdd(ukf.mu.velocity,
                        VScale(last'.delta_t, ukf.mu.acceleration))
            /\ ukf'.mu.acceleration = ukf.mu.acceleration]_vars
    /\ [](UkfPredict(PureTranslation, [k \in 1..DOF |-> 1],
                     [rotation_rate |-> 0, inertia_offset |-> 0,
                      lin_damping_offset |-> 0, quad_damping_offset |-> 0,
                      water_density_offset |-> 0, delta_t |-> 1],
                     [k \in 1..DOF |-> 0]).mu.position = <<1, 0>>)

\* a prediction over two time units from velocity (1, 1) and acceleration
\* (1, 0): the position has moved by (2, 2), the velocity has become (3, 1)
C12_Witness ==
    /\ last.op = "predict"
    /\ last.delta_t = 2
    /\ last.prior[1].velocity = <<1, 1>>
    /\ last.prior[1].acceleration = <<1, 0>>
    /\ ukf.mu.position = VAdd(last.prior[1].position, <<2, 2>>)
    /\ ukf.mu.velocity = <<3, 1>>

EffortsEvaluations == DOMAIN last.efforts

\* C14: in velocity-only mode the expected efforts depend on a sigma point
\* only through its velocity: any two sigma points of one update that have
\* the same velocity get the same expected efforts, whatever else differs
\* between them.
C14_VelocityOnlyDependsOnVelocity ==
    (last.op = "integrate" /\ last.kind = "BodyEffortsVelocityOnly")
    => \A i, j \in EffortsEvaluations :
          last.efforts[i].state.velocity = last.efforts[j].state.velocity
          => last.efforts[i].z = last.efforts[j].z

\* an applied velocity-only update: sigma points that share the velocity and
\* differ in water velocity, in acceleration and in inertia, and sigma points
\* of another velocity that get other efforts
C14_Witness ==
    /\ last.op = "integrate"
    /\ last.kind = "BodyEffortsVelocityOnly"
    /\ last.outcome = "applied"
    /\ \E i, j \in EffortsEvaluations :
          /\ last.efforts[i].state.velocity = last.efforts[j].state.velocity
          /\ last.efforts[i].state.water_velocity
               # last.efforts[j].state.water_velocity
    /\ \E i, j \in EffortsEvaluations :
          /\ last.efforts[i].state.velocity = last.efforts[j].state.velocity
          /\ last.efforts[i].state.acceleration
               # last.efforts[j].state.acceleration
    /\ \E i, j \in EffortsEvaluations :
          /\ last.efforts[i].state.velocity = last.efforts[j].state.velocity
          /\ last.efforts[i].state.inertia # last.efforts[j].state.inertia
    /\ \E i, j \in EffortsEvaluations :
          /\ last.efforts[i].state.velocity # last.efforts[j].state.velocity
          /\ last.efforts[i].z # last.efforts[j].z

\* C15 as the specification states it: whatever the lengths of
\* marker_features and feature_positions, every index the visual-marker
\* update reads is a valid index of both lists; it never reads either list
\* at or past its end.
C15_IndicesWithinBothLists ==
    visual # Null => ~visual.out_of_range

\* the step enters the visual-marker update / leaves it through the
\* write-back
VisualBeginStep == pc = "idle" /\ pc' = "visual"
VisualEndStep == pc = "visual" /\ pc' = "idle" /\ last'.outcome = "applied"

\* C16: a visual-marker update with no feature correspondence (both lists
\* empty) leaves the estimate as it was: the rebuilt inner filter has the
\* mean and the covariance it had before the call, and the latched rotation
\* rate and the relaxation targets are unchanged.
C16_EmptyVisualUpdateIsNoOp ==
    [][/\ VisualBeginStep
            => /\ ukf' = ukf
               /\ rotation_rate' = rotation_rate
       /\ (VisualEndStep /\ visual.marker_corners = <<>>
                         /\ visual.feature_positions = <<>>)
            => /\ ukf' = ukf
               /\ rotation_rate' = rotation_rate
               /\ inertia_offset' = inertia_offset
               /\ lin_damping_offset' = lin_damping_offset
               /\ quad_damping_offset' = quad_damping_offset
               /\ water_density_offset' = water_density_offset]_vars

\* an empty visual-marker update has returned, on a filter that an earlier
\* call had moved away from its initial estimate
C16_Witness ==
    /\ pc = "idle"
    /\ last.kind = "Visual"
    /\ last.outcome = "applied"
    /\ last.steps = <<>>
    /\ last.marker = <<[translation |-> <<-3, 2>>, rotation |-> 0], <<2, 3, 9>>>>
    /\ calls = 2
    /\ ukf.mu # initial_state
    /\ ukf.sigma # StateCov

====
